---- MODULE Spec2Model ----
(***************************************************************************)
(* KaraokeBird: the playback-clock synchronisation and lyric-timeline      *)
(* engine of src/main.py.                                                  *)
(*                                                                         *)
(*   reader : the fields of SpotifyReader (manager, current_track_id) and  *)
(*            the lyric fetch tasks it has created and not yet finished    *)
(*   win    : the fields of OverlayWindow (anchor, lyrics, active index,   *)
(*            labels, the settings it reads)                               *)
(*   now    : time.perf_counter() in ms; time.time() in ms is Wall(now)    *)
(*   pc     : where main_loop stands: in setup, before a poll, or inside   *)
(*            poll_status at its await of the media properties; under      *)
(*            SpecSettings, where main stands: before the window is        *)
(*            constructed, running, or ended by the exception named        *)
(*   label  : a StrokedLabel of src/ui_components.py (text,                *)
(*            enable_animation, _anim_stage, _pending_text); the labels of *)
(*            win have the animation disabled, as in DEFAULT_SETTINGS, and *)
(*            are kept as their text                                       *)
(*                                                                         *)
(* History variables, read by the properties only:                         *)
(*   sync_log     : the sample the last step handled and the anchor it met *)
(*                  (NoSync when the last step handled none)               *)
(*   frame        : what update_frame did in the last step (NoFrame when   *)
(*                  it did not run or returned before resolving)           *)
(*   settled      : update_frame has resolved an index since the lyrics,   *)
(*                  the track and the sync offset last changed             *)
(*   fresh_track  : no sample has been handled since the last track change *)
(*   lyrics_owner : the track whose fetch delivered win.lyrics_data        *)
(*   parse_log    : the blob parse_lrc was given in the last step, the     *)
(*                  lines it appended and what it returned (NoParse when   *)
(*                  the last step parsed nothing)                          *)
(*   shown_at     : the wall-clock time at which the current label came to *)
(*                  show its text (NotShown in behaviours that start       *)
(*                  without keeping it)                                    *)
(*   requested    : the argument of the last setText call on label         *)
(*   status_log   : the status message the last step emitted (NoStatus    *)
(*                  when it emitted none)                                  *)
(*                                                                         *)
(* Signals are connected directly on one thread (main.py 621-624), so an   *)
(* emit is a call: every handler below is one atomic step.  Times are      *)
(* integers in milliseconds.  Lyric indices are the code's (0-based, -1    *)
(* for none); line i of the code is lyrics_data[i + 1] here.               *)
(***************************************************************************)
EXTENDS Integers, Sequences, FiniteSets, TLC

VARIABLES reader, win, now, pc, sync_log, frame, settled, fresh_track, lyrics_owner,
          parse_log, shown_at, label, requested, status_log

vars == <<reader, win, now, pc, sync_log, frame, settled, fresh_track, lyrics_owner,
          parse_log, shown_at, label, requested, status_log>>

---------------------------------------------------------------------------
(* Bounds of the model *)

\* how many times the clock advances
MaxTicks == 2
\* how many lyric fetch tasks may be outstanding at once
MaxFetch == 2
\* time.time() in ms when perf_counter reads 0
WallEpoch == 1000

(* Program constants *)

\* the render timer's period, ms; the clock advances by it
ClockStep == 50
\* abs(diff) above this is a seek
JumpThreshold == 2000
\* diff above this is forward drift
DriftThreshold == 150
\* seconds a system message stays, in ms
FadeAfter == 5000
\* the staleness-correction window, ms
StaleWindow == 10000
\* settings["num_preview_lines"]
NumPreviewLines == 1
\* a first line later than this gets the intro marker before it, ms
IntroGap == 8000
\* the time of the intro marker, ms
IntroMarkerTime == 5000

None == "None"

\* track identities: a (title, artist) pair, named by its title
Tracks == {"A", "B"}

\* what the media session may report
RawPositions == {0, 200, 2100}
Ages == {0}
Durations == {3000}
Offsets == {0, -100}

Wall(t) == WallEpoch + t

Abs(x) == IF x < 0 THEN 0 - x ELSE x

---------------------------------------------------------------------------
(* SpotifyReader: parse_lrc *)

(* A Python str is a tuple of one-character strings here, over the characters *)
(* of Chars; Str turns the text of a line into a string.  A float is kept as  *)
(* the exact decimal it was written as (sign, digits, number of fractional    *)
(* digits), so int() of a product is the truncation of the exact value; the   *)
(* binary rounding of float is below the resolution of this model.            *)

Digits == {"0", "1", "2", "3", "4", "5", "6", "7", "8", "9"}
Whitespace == {" ", "\t", "\r", "\n"}
Chars == Digits \cup Whitespace \cup {"[", "]", ":", ".", "-", "+"}
           \cup {"a", "b", "f", "i", "n", "x"}

DigitValue(c) ==
    CASE c = "0" -> 0 [] c = "1" -> 1 [] c = "2" -> 2 [] c = "3" -> 3
      [] c = "4" -> 4 [] c = "5" -> 5 [] c = "6" -> 6 [] c = "7" -> 7
      [] c = "8" -> 8 [] c = "9" -> 9

RECURSIVE Str(_)
Str(s) == IF s = <<>> THEN "" ELSE Head(s) \o Str(Tail(s))

RECURSIVE FindFrom(_, _, _)
FindFrom(s, c, i) ==
    IF i > Len(s) THEN -1
    ELSE IF s[i] = c THEN i - 1
    ELSE FindFrom(s, c, i + 1)

\* str.find: the 0-based index of the first c in s, or -1
find(s, c) == FindFrom(s, c, 1)

\* s[a:b] and s[a:], for 0 <= a and 0 <= b <= len(s)
Slice(s, a, b) == SubSeq(s, a + 1, b)
SliceFrom(s, a) == SubSeq(s, a + 1, Len(s))

RECURSIVE lstrip(_)
lstrip(s) == IF s # <<>> /\ Head(s) \in Whitespace THEN lstrip(Tail(s)) ELSE s

RECURSIVE rstrip(_)
rstrip(s) ==
    IF s # <<>> /\ s[Len(s)] \in Whitespace
    THEN rstrip(SubSeq(s, 1, Len(s) - 1)) ELSE s

\* strip that leaves the whitespace in place
strip_Keeps(s) == s

\* str.strip
strip(s) == rstrip(lstrip(s))

\* str.split(sep), sep one character
RECURSIVE split(_, _)
split(s, sep) ==
    LET i == find(s, sep)
    IN IF i = -1 THEN <<s>>
       ELSE <<Slice(s, 0, i)>> \o split(SliceFrom(s, i + 1), sep)

RECURSIVE DigitsValue(_, _)
DigitsValue(s, acc) ==
    IF s = <<>> THEN acc
    ELSE DigitsValue(Tail(s), 10 * acc + DigitValue(Head(s)))

AllDigits(s) == \A i \in 1..Len(s) : s[i] \in Digits

Unsigned(s) == IF s # <<>> /\ Head(s) \in {"+", "-"} THEN Tail(s) ELSE s

SignOf(s) == IF s # <<>> /\ Head(s) = "-" THEN -1 ELSE 1

\* int(str): surrounding whitespace, an optional sign, decimal digits;
\* ok is FALSE where int raises ValueError
int(s) ==
    LET t == strip(s)
        body == Unsigned(t)
    IN IF body # <<>> /\ AllDigits(body)
       THEN [ok |-> TRUE, value |-> SignOf(t) * DigitsValue(body, 0)]
       ELSE [ok |-> FALSE]

\* float(str): surrounding whitespace, an optional sign, then digits with at
\* most one point, or inf, or nan; kind is "ValueError" where float raises
float(s) ==
    LET t == strip(s)
        body == Unsigned(t)
        dot == find(body, ".")
        whole == IF dot = -1 THEN body ELSE Slice(body, 0, dot)
        frac == IF dot = -1 THEN <<>> ELSE SliceFrom(body, dot + 1)
    IN IF body = <<"i", "n", "f">> THEN [kind |-> "inf"]
       ELSE IF body = <<"n", "a", "n">> THEN [kind |-> "nan"]
       ELSE IF (whole \o frac) # <<>> /\ AllDigits(whole) /\ AllDigits(frac)
            THEN [kind |-> "num", sign |-> SignOf(t),
                  mant |-> DigitsValue(whole \o frac, 0), scale |-> Len(frac)]
            ELSE [kind |-> "ValueError"]

RECURSIVE Pow10(_)
Pow10(n) == IF n = 0 THEN 1 ELSE 10 * Pow10(n - 1)

\* parse_lrc 165: int((minutes * 60 + seconds) * 1000), seconds a number;
\* int() truncates towards zero
total_ms(minutes, seconds) ==
    LET den == Pow10(seconds.scale)
        num == seconds.sign * seconds.mant * 1000
        floor == minutes * 60000 + (num \div den)
    IN IF floor >= 0 \/ num % den = 0 THEN floor ELSE floor + 1

\* parse_lrc 150-169 for one line: the line appended, if any, and whether an
\* exception left the loop
Skipped == [appended |-> FALSE, raised |-> FALSE]

ParseLine(line) ==
    IF strip(line) = <<>> THEN Skipped
    ELSE LET start == find(line, "[")
             end == find(line, "]")
         IN IF start = -1 \/ end = -1 THEN Skipped
            ELSE LET timestamp == Slice(line, start + 1, end)
                     text == strip(SliceFrom(line, end + 1))
                     parts == split(timestamp, ":")
                     minutes == int(parts[1])
                 IN IF ~minutes.ok \/ Len(parts) < 2 THEN Skipped
                    ELSE LET seconds == float(parts[2])
                         IN CASE seconds.kind \in {"ValueError", "nan"} -> Skipped
                              [] seconds.kind = "inf" ->
                                   [appended |-> FALSE, raised |-> TRUE]
                              [] seconds.kind = "num" ->
                                   [appended |-> TRUE, raised |-> FALSE,
                                    line |-> [time |-> total_ms(minutes.value, seconds),
                                              text |-> Str(text)]]

\* parse_lrc 149-169: the loop over the lines
RECURSIVE ParseLines(_, _)
ParseLines(lines, lyrics) ==
    IF lines = <<>> THEN [raised |-> FALSE, lyrics |-> lyrics]
    ELSE LET r == ParseLine(Head(lines))
         IN IF r.raised THEN [raised |-> TRUE, lyrics |-> <<>>]
            ELSE ParseLines(Tail(lines),
                            IF r.appended THEN Append(lyrics, r.line) ELSE lyrics)

\* InsertSorted that puts a line before the lines of its own time
RECURSIVE InsertSorted_BeforeEqual(_, _)
InsertSorted_BeforeEqual(sorted, x) ==
    IF sorted = <<>> THEN <<x>>
    ELSE IF x.time <= Head(sorted).time THEN <<x>> \o sorted
    ELSE <<Head(sorted)>> \o InsertSorted_BeforeEqual(Tail(sorted), x)

\* one step of a stable sort: x goes after every line whose time is <= its own
RECURSIVE InsertSorted(_, _)
InsertSorted(sorted, x) ==
    IF sorted = <<>> THEN <<x>>
    ELSE IF x.time < Head(sorted).time THEN <<x>> \o sorted
    ELSE <<Head(sorted)>> \o InsertSorted(Tail(sorted), x)

\* parse_lrc 172: list.sort(key=time), which is stable
RECURSIVE sort(_, _)
sort(lyrics, sorted) ==
    IF lyrics = <<>> THEN sorted
    ELSE sort(Tail(lyrics), InsertSorted(sorted, Head(lyrics)))

\* the line parse_lrc puts before a long intro
IntroMarker == [time |-> IntroMarkerTime, text |-> "..."]

\* PostProcess with the marker also before a first line at exactly the gap
PostProcess_MarkerAtGap(r) ==
    LET lyrics == sort(r.lyrics, <<>>)
    IN IF r.raised THEN [raised |-> TRUE, lyrics |-> <<>>]
       ELSE IF lyrics = <<>> THEN [raised |-> FALSE, lyrics |-> <<>>]
       ELSE IF lyrics[1].time >= IntroGap
            THEN [raised |-> FALSE, lyrics |-> <<IntroMarker>> \o lyrics]
            ELSE [raised |-> FALSE, lyrics |-> lyrics]

\* parse_lrc 171-183, after the loop that left the lines of r.lyrics
PostProcess(r) ==
    LET lyrics == sort(r.lyrics, <<>>)
    IN IF r.raised THEN [raised |-> TRUE, lyrics |-> <<>>]
       ELSE IF lyrics = <<>> THEN [raised |-> FALSE, lyrics |-> <<>>]
       ELSE IF lyrics[1].time > IntroGap
            THEN [raised |-> FALSE, lyrics |-> <<IntroMarker>> \o lyrics]
            ELSE [raised |-> FALSE, lyrics |-> lyrics]

\* parse_lrc: raised where an exception leaves it, else the lines it returns
parse_lrc(lrc_string) == PostProcess(ParseLines(split(lrc_string, "\n"), <<>>))

\* an LRC line "[mm:ss]text" and a blob of lines
LrcLine(mm, ss, text) == <<"[">> \o mm \o <<":">> \o ss \o <<"]">> \o text

RECURSIVE Join(_)
Join(lines) ==
    IF lines = <<>> THEN <<>>
    ELSE IF Len(lines) = 1 THEN lines[1]
    ELSE lines[1] \o <<"\n">> \o Join(Tail(lines))

\* what syncedlyrics.search returns for a track
LrcOf(t) ==
    IF t = "A"
    THEN Join(<< LrcLine(<<"0", "0">>, <<"0", "0", ".", "2", "5">>, <<"a", "2">>),
                 LrcLine(<<"0", "0">>, <<"0", "0", ".", "1", "0">>, <<"a", "1">>),
                 LrcLine(<<"0", "0">>, <<"0", "2", ".", "1", "0">>, <<"a", "3">>) >>)
    ELSE Join(<< LrcLine(<<"0", "0">>, <<"0", "0", ".", "0", "0">>, <<"b", "1">>),
                 LrcLine(<<"0", "0">>, <<"0", "0", ".", "2", "0">>, <<"b", "2">>),
                 LrcLine(<<"0", "0">>, <<"0", "0", ".", "2", "0">>, <<"b", "3">>) >>)

LyricsA == parse_lrc(LrcOf("A")).lyrics
LyricsB == parse_lrc(LrcOf("B")).lyrics

\* what parse_lrc makes of a track's blob: sorted lines
LyricsOf(t) == IF t = "A" THEN LyricsA ELSE LyricsB

---------------------------------------------------------------------------
(* OverlayWindow: display *)

\* get_line_text
get_line_text(w, index, is_context) ==
    IF 0 <= index /\ index < Len(w.lyrics_data)
    THEN w.lyrics_data[index + 1].text
    ELSE IF is_context THEN ""
    ELSE IF index = -1
         THEN (IF w.current_title # "" THEN "Now Playing: " \o w.current_title ELSE "")
    ELSE IF index = -2 THEN "Lyrics loaded!"
    ELSE ""

\* the context labels all set to ""
ClearContext(w) ==
    [w EXCEPT !.prev_labels = [i \in DOMAIN w.prev_labels |-> ""],
              !.next_labels = [i \in DOMAIN w.next_labels |-> ""]]

\* update_display, at wall-clock time wall
update_display(w, index, wall) ==
    LET smt == IF index < 0 THEN wall ELSE 0
        w1 == [w EXCEPT !.system_message_time = smt]
        text0 == get_line_text(w1, index, FALSE)
        target_text == IF index < 0 /\ smt > 0 /\ wall - smt > FadeAfter
                       THEN "" ELSE text0
        show_context == index >= 0
        num_prev == Len(w.prev_labels)
    IN [w1 EXCEPT
          !.curr_label = target_text,
          !.prev_labels = [i \in DOMAIN w.prev_labels |->
                IF show_context
                THEN get_line_text(w1, index + ((i - 1) - num_prev), TRUE) ELSE ""],
          !.next_labels = [i \in DOMAIN w.next_labels |->
                IF show_context
                THEN get_line_text(w1, index + i, TRUE) ELSE ""]]

\* update_status that shows the message also while lyrics are loaded
update_status_Always(w, msg, wall) ==
    ClearContext([w EXCEPT !.system_message_time = wall, !.curr_label = msg])

\* update_status
update_status(w, msg, wall) ==
    IF w.lyrics_data = <<>>
    THEN ClearContext([w EXCEPT !.system_message_time = wall, !.curr_label = msg])
    ELSE w

\* set_track_info that keeps the lyrics and the index of the track before
set_track_info_KeepsLyrics(w, title, wall) ==
    update_display([w EXCEPT !.current_title = title], -1, wall)

\* set_track_info
set_track_info(w, title, wall) ==
    update_display([w EXCEPT !.current_title = title,
                             !.lyrics_data = <<>>,
                             !.current_lyric_index = -1], -1, wall)

\* on_lyrics_found that keeps the index of the lyrics before
on_lyrics_found_KeepsIndex(w, data, wall) ==
    LET w1 == [w EXCEPT !.lyrics_data = data]
    IN IF data = <<>>
       THEN ClearContext([w1 EXCEPT !.curr_label = "No synced lyrics found"])
       ELSE update_display(w1, -1, wall)

\* on_lyrics_found
on_lyrics_found(w, data, wall) ==
    LET w1 == [w EXCEPT !.lyrics_data = data, !.current_lyric_index = -1]
    IN IF data = <<>>
       THEN ClearContext([w1 EXCEPT !.curr_label = "No synced lyrics found"])
       ELSE update_display(w1, -1, wall)

\* apply_settings 343-351: the text of the rebuilt labels is refreshed
RefreshText(w, wall) ==
    IF w.current_lyric_index # -1
    THEN update_display(w, w.current_lyric_index, wall)
    ELSE IF w.lyrics_data = <<>>
         THEN [w EXCEPT !.curr_label = "Waiting for music...",
                        !.system_message_time = wall]
         ELSE w

\* apply_settings with settings that hold num_preview_lines = NumPreviewLines
\* and the sync offset given: the labels are rebuilt and the text refreshed
apply_settings(w, offset, wall) ==
    LET w1 == [w EXCEPT !.sync_offset_ms = offset,
                        !.prev_labels = [i \in 1..NumPreviewLines |-> ""],
                        !.next_labels = [i \in 1..NumPreviewLines |-> ""]]
    IN RefreshText(w1, wall)

---------------------------------------------------------------------------
(* OverlayWindow: the timeline cursor *)

\* CurrentTime with the elapsed time added also while paused
CurrentTime_IgnoresPause(w, t) ==
    w.last_sync_track_time + (t - w.last_sync_sys_time) + w.sync_offset_ms

\* CurrentTime with the elapsed time taken the wrong way round
CurrentTime_BackwardDelta(w, t) ==
    w.last_sync_track_time
      + (IF w.is_playing THEN w.last_sync_sys_time - t ELSE 0)
      + w.sync_offset_ms

\* update_frame 429-437: the interpolated track time at perf_counter t
CurrentTime(w, t) ==
    w.last_sync_track_time
      + (IF w.is_playing THEN t - w.last_sync_sys_time ELSE 0)
      + w.sync_offset_ms

\* update_frame 441-446: the scan from line i (0-based) on, acc the index so far
RECURSIVE ScanFrom(_, _, _, _)
ScanFrom(lyrics, current_time, i, acc) ==
    IF i >= Len(lyrics) THEN acc
    ELSE IF lyrics[i + 1].time <= current_time
         THEN ScanFrom(lyrics, current_time, i + 1, i)
         ELSE acc

\* the scan with < in place of <=
RECURSIVE ScanStrict(_, _, _, _)
ScanStrict(lyrics, current_time, i, acc) ==
    IF i >= Len(lyrics) THEN acc
    ELSE IF lyrics[i + 1].time < current_time
         THEN ScanStrict(lyrics, current_time, i + 1, i)
         ELSE acc

ActiveIndex_Strict(lyrics, current_time) == ScanStrict(lyrics, current_time, 0, -1)

\* update_frame 441-446
ActiveIndex(lyrics, current_time) == ScanFrom(lyrics, current_time, 0, -1)

NoFrame == [resolved |-> FALSE]

\* update_frame 418-427: no lyrics; a system message older than 5 s is cleared
FadeOnly(w, t) ==
    IF w.system_message_time > 0
       /\ Wall(t) - w.system_message_time > FadeAfter
       /\ w.curr_label # ""
    THEN [w EXCEPT !.curr_label = ""]
    ELSE w

\* update_frame that refreshes the display on every frame
update_frame_AlwaysDisplay(w, t) ==
    IF w.lyrics_data = <<>>
    THEN [w |-> FadeOnly(w, t), frame |-> NoFrame]
    ELSE LET current_time == CurrentTime(w, t)
             active_index == ActiveIndex(w.lyrics_data, current_time)
         IN [w |-> update_display([w EXCEPT !.current_lyric_index = active_index],
                                  active_index, Wall(t)),
             frame |-> [resolved |-> TRUE, at |-> t, current_time |-> current_time,
                        active_index |-> active_index,
                        last_emitted |-> w.current_lyric_index,
                        displayed |-> TRUE,
                        read_track_time |-> w.last_sync_track_time,
                        read_sys_time |-> w.last_sync_sys_time,
                        read_playing |-> w.is_playing]]

\* update_frame at perf_counter t: the window after it, and what the frame did
\* (displayed: it called update_display; read_*: the anchor it read at 429-434)
update_frame(w, t) ==
    IF w.lyrics_data = <<>>
    THEN [w |-> FadeOnly(w, t), frame |-> NoFrame]
    ELSE LET current_time == CurrentTime(w, t)
             active_index == ActiveIndex(w.lyrics_data, current_time)
             did == IF active_index # w.current_lyric_index
                    THEN [w |-> update_display(
                                  [w EXCEPT !.current_lyric_index = active_index],
                                  active_index, Wall(t)),
                          displayed |-> TRUE]
                    ELSE IF active_index < 0 /\ w.system_message_time > 0
                         THEN [w |-> IF Wall(t) - w.system_message_time > FadeAfter
                                        /\ w.curr_label # ""
                                     THEN [w EXCEPT !.curr_label = ""] ELSE w,
                               displayed |-> FALSE]
                         ELSE [w |-> w, displayed |-> FALSE]
         IN [w |-> did.w,
             frame |-> [resolved |-> TRUE, at |-> t, current_time |-> current_time,
                        active_index |-> active_index,
                        last_emitted |-> w.current_lyric_index,
                        displayed |-> did.displayed,
                        read_track_time |-> w.last_sync_track_time,
                        read_sys_time |-> w.last_sync_sys_time,
                        read_playing |-> w.is_playing]]

---------------------------------------------------------------------------
(* OverlayWindow: the playback anchor *)

\* NewAnchor with diff > 2000 in place of abs(diff) > 2000
NewAnchor_ForwardJumpOnly(w, is_playing, position, capture_time) ==
    IF w.is_playing /\ is_playing
    THEN LET expected == w.last_sync_track_time
                           + (capture_time - w.last_sync_sys_time)
             diff == position - expected
         IN IF diff > JumpThreshold THEN <<position, capture_time>>
            ELSE IF diff > DriftThreshold THEN <<position, capture_time>>
            ELSE <<w.last_sync_track_time, w.last_sync_sys_time>>
    ELSE <<position, capture_time>>

\* NewAnchor with diff >= 150 in place of diff > 150
NewAnchor_SnapAtDrift(w, is_playing, position, capture_time) ==
    IF w.is_playing /\ is_playing
    THEN LET expected == w.last_sync_track_time
                           + (capture_time - w.last_sync_sys_time)
             diff == position - expected
         IN IF Abs(diff) > JumpThreshold THEN <<position, capture_time>>
            ELSE IF diff >= DriftThreshold THEN <<position, capture_time>>
            ELSE <<w.last_sync_track_time, w.last_sync_sys_time>>
    ELSE <<position, capture_time>>

\* NewAnchor without the forward-drift branch
NewAnchor_NoDriftSnap(w, is_playing, position, capture_time) ==
    IF w.is_playing /\ is_playing
    THEN LET expected == w.last_sync_track_time
                           + (capture_time - w.last_sync_sys_time)
             diff == position - expected
         IN IF Abs(diff) > JumpThreshold THEN <<position, capture_time>>
            ELSE <<w.last_sync_track_time, w.last_sync_sys_time>>
    ELSE <<position, capture_time>>

\* NewAnchor testing the sample's flag only, not the stored one
NewAnchor_SampleFlagOnly(w, is_playing, position, capture_time) ==
    IF is_playing
    THEN LET expected == w.last_sync_track_time
                           + (capture_time - w.last_sync_sys_time)
             diff == position - expected
         IN IF Abs(diff) > JumpThreshold THEN <<position, capture_time>>
            ELSE IF diff > DriftThreshold THEN <<position, capture_time>>
            ELSE <<w.last_sync_track_time, w.last_sync_sys_time>>
    ELSE <<position, capture_time>>

\* NewAnchor that also snaps to a sample more than the drift threshold behind
NewAnchor_SnapBackwardDrift(w, is_playing, position, capture_time) ==
    IF w.is_playing /\ is_playing
    THEN LET expected == w.last_sync_track_time
                           + (capture_time - w.last_sync_sys_time)
             diff == position - expected
         IN IF Abs(diff) > DriftThreshold THEN <<position, capture_time>>
            ELSE <<w.last_sync_track_time, w.last_sync_sys_time>>
    ELSE <<position, capture_time>>

\* NewAnchor applying the thresholds whatever the playing flags are
NewAnchor_ThresholdsAlways(w, is_playing, position, capture_time) ==
    LET expected == w.last_sync_track_time
                      + (capture_time - w.last_sync_sys_time)
        diff == position - expected
    IN IF Abs(diff) > JumpThreshold THEN <<position, capture_time>>
       ELSE IF diff > DriftThreshold THEN <<position, capture_time>>
       ELSE <<w.last_sync_track_time, w.last_sync_sys_time>>

\* on_playback_sync 390-412: the anchor <<track time, capture time>> after a sample
NewAnchor(w, is_playing, position, capture_time) ==
    IF w.is_playing /\ is_playing
    THEN LET expected == w.last_sync_track_time
                           + (capture_time - w.last_sync_sys_time)
             diff == position - expected
         IN IF Abs(diff) > JumpThreshold THEN <<position, capture_time>>
            ELSE IF diff > DriftThreshold THEN <<position, capture_time>>
            ELSE <<w.last_sync_track_time, w.last_sync_sys_time>>
    ELSE <<position, capture_time>>

\* on_playback_sync 389-415, before its call of update_frame
SyncAnchor(w, is_playing, position, duration, capture_time) ==
    LET a == NewAnchor(w, is_playing, position, capture_time)
    IN [w EXCEPT !.last_sync_track_time = a[1],
                 !.last_sync_sys_time = a[2],
                 !.is_playing = is_playing,
                 !.duration = duration]

\* on_playback_sync that calls update_frame before it stores the playing flag
on_playback_sync_FrameBeforeFlag(w, is_playing, position, duration, capture_time, t) ==
    LET a == SyncAnchor(w, is_playing, position, duration, capture_time)
        r == update_frame([a EXCEPT !.is_playing = w.is_playing], t)
    IN [w |-> [r.w EXCEPT !.is_playing = is_playing], frame |-> r.frame]

\* on_playback_sync that resolves the line before it stores the sample
on_playback_sync_ResolveFirst(w, is_playing, position, duration, capture_time, t) ==
    LET r == update_frame(w, t)
    IN [w |-> SyncAnchor(r.w, is_playing, position, duration, capture_time),
        frame |-> r.frame]

\* on_playback_sync, handled at perf_counter t
on_playback_sync(w, is_playing, position, duration, capture_time, t) ==
    update_frame(SyncAnchor(w, is_playing, position, duration, capture_time), t)

-------------------------------------------------------------------------------------------------------------------------------------------------
(* SpotifyReader and the event loop *)

NoSync == [handled |-> FALSE]

NoParse == [parsed |-> FALSE]

NoStatus == [emitted |-> FALSE]

\* status_message.emit(msg)
Status(msg) == [emitted |-> TRUE, msg |-> msg]

NotShown == [kept |-> FALSE]

\* shown_at after a step: the label shows its text since now if the step changed it
ShownAfter ==
    IF shown_at.kept /\ win'.curr_label # win.curr_label
    THEN [kept |-> TRUE, at |-> Wall(now)]
    ELSE shown_at

\* StrokedLabel.__init__ 14-32, with no text
IdleLabel ==
    [text |-> "", enable_animation |-> FALSE, anim_stage |-> 0, pending_text |-> ""]

\* what parse_lrc did with lrc_string
ParseLog(lrc_string) ==
    LET r == ParseLines(split(lrc_string, "\n"), <<>>)
    IN [parsed |-> TRUE, lrc_string |-> lrc_string,
        appended |-> r.lyrics, result |-> PostProcess(r)]

ParseLogA == ParseLog(LrcOf("A"))
ParseLogB == ParseLog(LrcOf("B"))

\* what parse_lrc did with the blob of track t
ParseLogOf(t) == IF t = "A" THEN ParseLogA ELSE ParseLogB

Outstanding == reader.fetches["A"] + reader.fetches["B"]

\* OverlayWindow.__init__ 219-230, before its call of apply_settings
InitialWindow ==
    [lyrics_data |-> <<>>, current_lyric_index |-> -1, current_title |-> "",
     is_playing |-> FALSE, last_sync_track_time |-> 0, last_sync_sys_time |-> 0,
     duration |-> 0, system_message_time |-> 0,
     curr_label |-> "Waiting for music...",
     prev_labels |-> <<>>, next_labels |-> <<>>, sync_offset_ms |-> 0]

Init ==
    /\ reader = [manager |-> FALSE, current_track_id |-> None,
                 fetches |-> [t \in Tracks |-> 0]]
    /\ win = apply_settings(InitialWindow, 0, Wall(0))
    /\ now = 0
    /\ pc = "setup"
    /\ sync_log = NoSync
    /\ frame = NoFrame
    /\ settled = FALSE
    /\ fresh_track = FALSE
    /\ lyrics_owner = None
    /\ parse_log = NoParse
    /\ shown_at = NotShown
    /\ label = IdleLabel
    /\ requested = ""
    /\ status_log = NoStatus

\* SpotifyReader.setup, from main_loop
Setup ==
    /\ pc = "setup"
    /\ pc' = "poll"
    /\ \E connected \in BOOLEAN :
          /\ reader' = [reader EXCEPT !.manager = connected]
          /\ LET msg == IF connected THEN "Connected to Windows Media Controls"
                        ELSE "Error connecting to Windows"
             IN /\ win' = update_status(win, msg, Wall(now))
                /\ status_log' = Status(msg)
    /\ sync_log' = NoSync
    /\ frame' = NoFrame
    /\ UNCHANGED <<now, settled, fresh_track, lyrics_owner>>
    /\ parse_log' = NoParse
    /\ shown_at' = ShownAfter
    /\ UNCHANGED <<label, requested>>

\* CorrectedPosition with an age of exactly the window still added
CorrectedPosition_InclusiveWindow(raw_position_ms, elapsed_since_update) ==
    IF 0 <= elapsed_since_update /\ elapsed_since_update <= StaleWindow
    THEN raw_position_ms + elapsed_since_update
    ELSE raw_position_ms

\* poll_status 93-96: the position corrected by the age of the session's timestamp
CorrectedPosition(raw_position_ms, elapsed_since_update) ==
    IF 0 <= elapsed_since_update /\ elapsed_since_update < StaleWindow
    THEN raw_position_ms + elapsed_since_update
    ELSE raw_position_ms

\* poll_status 60-66: no manager, or no current session
PollNoSession ==
    /\ pc = "poll"
    /\ win' = IF reader.manager
              THEN update_status(win, "Waiting for media...", Wall(now))
              ELSE win
    /\ status_log' = IF reader.manager THEN Status("Waiting for media...")
                     ELSE NoStatus
    /\ sync_log' = NoSync
    /\ frame' = NoFrame
    /\ UNCHANGED <<reader, now, pc, settled, fresh_track, lyrics_owner>>
    /\ parse_log' = NoParse
    /\ shown_at' = ShownAfter
    /\ UNCHANGED <<label, requested>>

\* poll_status 80-89: the age of the session's last-updated timestamp, 0 when
\* reading the timestamp raised
ElapsedSinceUpdate(last_updated) ==
    IF last_updated.readable THEN last_updated.age ELSE 0

\* what the session may report as its last-updated timestamp
LastUpdates == {[readable |-> TRUE, age |-> a] : a \in Ages}

\* poll_status 68-105: a sample is read and playback_sync emitted; the session's
\* last-updated timestamp is one of updates
PollSampleWith(updates) ==
    /\ pc = "poll"
    /\ reader.manager
    /\ pc' = "meta"
    /\ \E is_playing \in BOOLEAN, raw \in RawPositions, last_updated \in updates,
          duration \in Durations :
          LET position == CorrectedPosition(raw, ElapsedSinceUpdate(last_updated))
              r == on_playback_sync(win, is_playing, position, duration, now, now)
          IN /\ win' = r.w
             /\ frame' = r.frame
             /\ settled' = r.frame.resolved
             /\ sync_log' = [handled |-> TRUE, is_playing |-> is_playing,
                             position |-> position, capture_time |-> now,
                             prev_playing |-> win.is_playing,
                             prev_track_time |-> win.last_sync_track_time,
                             prev_sys_time |-> win.last_sync_sys_time,
                             after_track_change |-> fresh_track,
                             raw_position_ms |-> raw,
                             last_updated |-> last_updated]
    /\ fresh_track' = FALSE
    /\ UNCHANGED <<reader, now, lyrics_owner>>
    /\ parse_log' = NoParse
    /\ shown_at' = ShownAfter
    /\ status_log' = NoStatus
    /\ UNCHANGED <<label, requested>>

PollSample == PollSampleWith(LastUpdates)

\* poll_status 76, 106-107: no timeline or playback info, or the read raised
PollNoSample ==
    /\ pc = "poll"
    /\ reader.manager
    /\ pc' = "meta"
    /\ sync_log' = NoSync
    /\ frame' = NoFrame
    /\ UNCHANGED <<reader, win, now, settled, fresh_track, lyrics_owner>>
    /\ parse_log' = NoParse
    /\ shown_at' = ShownAfter
    /\ status_log' = NoStatus
    /\ UNCHANGED <<label, requested>>

\* PollMetadata that starts a fetch on every poll that reports a title
PollMetadata_FetchEveryPoll ==
    /\ pc = "meta"
    /\ pc' = "poll"
    /\ sync_log' = NoSync
    /\ frame' = NoFrame
    /\ \E title \in Tracks \cup {""} :
          IF title # ""
          THEN /\ Outstanding < MaxFetch
               /\ reader' = [reader EXCEPT !.current_track_id = title,
                                           !.fetches[title] = @ + 1]
               /\ win' = IF title # reader.current_track_id
                         THEN set_track_info(win, title, Wall(now)) ELSE win
               /\ settled' = FALSE
               /\ fresh_track' = TRUE
               /\ lyrics_owner' = None
          ELSE UNCHANGED <<reader, win, settled, fresh_track, lyrics_owner>>
    /\ UNCHANGED now
    /\ parse_log' = NoParse
    /\ shown_at' = ShownAfter
    /\ status_log' = NoStatus
    /\ UNCHANGED <<label, requested>>

\* poll_status 110-126, after the await: the metadata is read
PollMetadata ==
    /\ pc = "meta"
    /\ pc' = "poll"
    /\ sync_log' = NoSync
    /\ frame' = NoFrame
    /\ \E title \in Tracks \cup {""} :
          IF title # reader.current_track_id /\ title # ""
          THEN /\ Outstanding < MaxFetch
               /\ reader' = [reader EXCEPT !.current_track_id = title,
                                           !.fetches[title] = @ + 1]
               /\ win' = set_track_info(win, title, Wall(now))
               /\ settled' = FALSE
               /\ fresh_track' = TRUE
               /\ lyrics_owner' = None
          ELSE UNCHANGED <<reader, win, settled, fresh_track, lyrics_owner>>
    /\ UNCHANGED now
    /\ parse_log' = NoParse
    /\ shown_at' = ShownAfter
    /\ status_log' = NoStatus
    /\ UNCHANGED <<label, requested>>

\* poll_status 125-126: reading the metadata raised
PollMetadataError ==
    /\ pc = "meta"
    /\ pc' = "poll"
    /\ sync_log' = NoSync
    /\ frame' = NoFrame
    /\ UNCHANGED <<reader, win, now, settled, fresh_track, lyrics_owner>>
    /\ parse_log' = NoParse
    /\ shown_at' = ShownAfter
    /\ status_log' = NoStatus
    /\ UNCHANGED <<label, requested>>

\* fetch_lyrics 136-138: the search for track t returned lyrics
FetchFound(t) ==
    /\ reader.fetches[t] > 0
    /\ reader' = [reader EXCEPT !.fetches[t] = @ - 1]
    /\ win' = on_lyrics_found(win, LyricsOf(t), Wall(now))
    /\ lyrics_owner' = t
    /\ sync_log' = NoSync
    /\ frame' = NoFrame
    /\ settled' = FALSE
    /\ UNCHANGED <<now, pc, fresh_track>>
    /\ parse_log' = ParseLogOf(t)
    /\ shown_at' = ShownAfter
    /\ status_log' = NoStatus
    /\ UNCHANGED <<label, requested>>

\* fetch_lyrics 139-141: the search for track t returned nothing
FetchNone(t) ==
    /\ reader.fetches[t] > 0
    /\ reader' = [reader EXCEPT !.fetches[t] = @ - 1]
    /\ win' = update_status(on_lyrics_found(win, <<>>, Wall(now)),
                            "No synced lyrics found.", Wall(now))
    /\ status_log' = Status("No synced lyrics found.")
    /\ lyrics_owner' = None
    /\ sync_log' = NoSync
    /\ frame' = NoFrame
    /\ settled' = FALSE
    /\ UNCHANGED <<now, pc, fresh_track>>
    /\ parse_log' = NoParse
    /\ shown_at' = ShownAfter
    /\ UNCHANGED <<label, requested>>

\* fetch_lyrics 142-144: the search for track t raised
FetchError(t) ==
    /\ reader.fetches[t] > 0
    /\ reader' = [reader EXCEPT !.fetches[t] = @ - 1]
    /\ win' = on_lyrics_found(win, <<>>, Wall(now))
    /\ lyrics_owner' = None
    /\ sync_log' = NoSync
    /\ frame' = NoFrame
    /\ settled' = FALSE
    /\ UNCHANGED <<now, pc, fresh_track>>
    /\ parse_log' = NoParse
    /\ shown_at' = ShownAfter
    /\ status_log' = NoStatus
    /\ UNCHANGED <<label, requested>>

\* the render timer fires: update_frame
Tick ==
    /\ LET r == update_frame(win, now)
       IN /\ win' = r.w
          /\ frame' = r.frame
          /\ settled' = r.frame.resolved
    /\ sync_log' = NoSync
    /\ UNCHANGED <<reader, now, pc, fresh_track, lyrics_owner>>
    /\ parse_log' = NoParse
    /\ shown_at' = ShownAfter
    /\ status_log' = NoStatus
    /\ UNCHANGED <<label, requested>>

\* the settings dialog changes the sync offset: apply_settings
ApplySettings ==
    /\ \E offset \in Offsets : win' = apply_settings(win, offset, Wall(now))
    /\ sync_log' = NoSync
    /\ frame' = NoFrame
    /\ settled' = FALSE
    /\ UNCHANGED <<reader, now, pc, fresh_track, lyrics_owner>>
    /\ parse_log' = NoParse
    /\ shown_at' = ShownAfter
    /\ status_log' = NoStatus
    /\ UNCHANGED <<label, requested>>

\* time passes
AdvanceClock ==
    /\ now < MaxTicks * ClockStep
    /\ now' = now + ClockStep
    /\ sync_log' = NoSync
    /\ frame' = NoFrame
    /\ UNCHANGED <<reader, win, pc, settled, fresh_track, lyrics_owner>>
    /\ parse_log' = NoParse
    /\ shown_at' = ShownAfter
    /\ status_log' = NoStatus
    /\ UNCHANGED <<label, requested>>

Next ==
    \/ Setup
    \/ PollNoSession
    \/ PollSample
    \/ PollNoSample
    \/ PollMetadata
    \/ PollMetadataError
    \/ \E t \in Tracks : FetchFound(t)
    \/ \E t \in Tracks : FetchNone(t)
    \/ \E t \in Tracks : FetchError(t)
    \/ Tick
    \/ ApplySettings
    \/ AdvanceClock

Spec == Init /\ [][Next]_vars

---------------------------------------------------------------------------
(* The timeline cursor on every sorted lyric sequence *)

\* how long a lyric sequence the cursor is run on
MaxLines == 3

LineTimes == {0, 100, 200, 250, 2100}

\* every sequence of at most MaxLines lines that is non-decreasing by time
SortedLyrics ==
    LET Seqs == UNION {[1..n -> LineTimes] : n \in 0..MaxLines}
    IN {[i \in DOMAIN s |-> [time |-> s[i], text |-> "x"]] :
          s \in {q \in Seqs : \A i \in 1..(Len(q) - 1) : q[i] <= q[i + 1]}}

\* a window that was told of track A, was handed some sorted lyrics for it and
\* has handled one sample at perf_counter 0
InitCursor ==
    /\ reader = [manager |-> TRUE, current_track_id |-> "A",
                 fetches |-> [t \in Tracks |-> 0]]
    /\ \E lyr \in SortedLyrics \ {<<>>}, is_playing \in BOOLEAN,
          position \in RawPositions, duration \in Durations :
          win = SyncAnchor(
                  on_lyrics_found(
                    set_track_info(apply_settings(InitialWindow, 0, Wall(0)),
                                   "A", Wall(0)),
                    lyr, Wall(0)),
                  is_playing, position, duration, 0)
    /\ now = 0
    /\ pc = "poll"
    /\ sync_log = NoSync
    /\ frame = NoFrame
    /\ settled = FALSE
    /\ fresh_track = FALSE
    /\ lyrics_owner = "A"
    /\ parse_log = NoParse
    /\ shown_at = NotShown
    /\ label = IdleLabel
    /\ requested = ""
    /\ status_log = NoStatus

NextCursor ==
    \/ Tick
    \/ ApplySettings
    \/ AdvanceClock

SpecCursor == InitCursor /\ [][NextCursor]_vars

---------------------------------------------------------------------------
(* parse_lrc on every blob of a few lines *)

\* how many lines a blob has at most
MaxBlobLines == 2

DigitChar(d) ==
    CASE d = 0 -> "0" [] d = 1 -> "1" [] d = 2 -> "2" [] d = 3 -> "3"
      [] d = 4 -> "4" [] d = 5 -> "5" [] d = 6 -> "6" [] d = 7 -> "7"
      [] d = 8 -> "8" [] d = 9 -> "9"

Fmt2(n) == <<DigitChar(n \div 10), DigitChar(n % 10)>>

\* what a well-formed line "[mm:ss.cc]text" says: 1 s, 8 s or 8.01 s, and a text
\* written bare ("a") or with whitespace around it (" b ", then a carriage return)
Entries ==
    {e \in [mm : {0}, ss : {1, 8}, cc : {0, 1}, text : {<<"a">>, <<"b">>},
            padded : BOOLEAN] :
        /\ e.cc = 1 => e.ss = 8
        /\ e.padded <=> e.text = <<"b">>}

FormatLine(e) ==
    LrcLine(Fmt2(e.mm), Fmt2(e.ss) \o <<".">> \o Fmt2(e.cc),
            IF e.padded THEN <<" ">> \o e.text \o <<" ", "\r">> ELSE e.text)

\* the time in ms a well-formed line is written for
EntryTime(e) == e.mm * 60000 + e.ss * 1000 + e.cc * 10

WellFormedLines == {FormatLine(e) : e \in Entries}

\* lines that cannot be parsed: no closing bracket, minutes not a number,
\* seconds not a number, no colon, nothing but whitespace
MalformedLines ==
    { <<"[", "0", "0", ":", "0", "1", "x">>,
      <<"[", "x", ":", "0", "1", "]", "x">>,
      <<"[", "0", "0", ":", "x", "]", "x">>,
      <<"[", "0", "0", "0", "1", "]", "x">>,
      <<" ">> }

\* lines whose fields int() and float() accept but no LRC timestamp has:
\* infinite seconds, negative minutes, negative seconds, a fraction of a ms
OddLines ==
    { <<"[", "0", "0", ":", "i", "n", "f", "]", "x">>,
      <<"[", "-", "1", ":", "0", "0", "]", "x">>,
      <<"[", "0", "0", ":", "-", "1", "]", "x">>,
      <<"[", "0", "0", ":", "0", "1", ".", "0", "0", "0", "6", "]", "x">> }

LrcLines == WellFormedLines \cup MalformedLines \cup OddLines

\* the blobs syncedlyrics.search may return: 1 to MaxBlobLines lines
Blobs == {Join(ls) : ls \in UNION {[1..n -> LrcLines] : n \in 1..MaxBlobLines}}

\* a window that was told of track A, whose fetch is under way, and has handled
\* one playing sample at perf_counter 0
InitParse ==
    /\ reader = [manager |-> TRUE, current_track_id |-> "A",
                 fetches |-> [t \in Tracks |-> IF t = "A" THEN 1 ELSE 0]]
    /\ win = SyncAnchor(
               set_track_info(apply_settings(InitialWindow, 0, Wall(0)),
                              "A", Wall(0)),
               TRUE, 2100, 3000, 0)
    /\ now = 0
    /\ pc = "poll"
    /\ sync_log = NoSync
    /\ frame = NoFrame
    /\ settled = FALSE
    /\ fresh_track = FALSE
    /\ lyrics_owner = None
    /\ parse_log = NoParse
    /\ shown_at = NotShown
    /\ label = IdleLabel
    /\ requested = ""
    /\ status_log = NoStatus

\* fetch_lyrics 134-138, 142-144: the search for track A returned a blob, which
\* is parsed; the lines are emitted, or [] if parse_lrc raised
FetchLrc ==
    /\ reader.fetches["A"] > 0
    /\ reader' = [reader EXCEPT !.fetches["A"] = @ - 1]
    /\ \E lrc_string \in Blobs :
          LET log == ParseLog(lrc_string)
          IN /\ lrc_string # <<>>
             /\ parse_log' = log
             /\ win' = on_lyrics_found(win, log.result.lyrics, Wall(now))
             /\ lyrics_owner' = IF log.result.lyrics = <<>> THEN None ELSE "A"
    /\ sync_log' = NoSync
    /\ frame' = NoFrame
    /\ settled' = FALSE
    /\ UNCHANGED <<now, pc, fresh_track>>
    /\ shown_at' = ShownAfter
    /\ status_log' = NoStatus
    /\ UNCHANGED <<label, requested>>

NextParse ==
    \/ FetchLrc
    \/ Tick
    \/ AdvanceClock

SpecParse == InitParse /\ [][NextParse]_vars

---------------------------------------------------------------------------
(* The staleness correction on every age of the session's timestamp *)

\* ages in ms: in the future, none, inside the window, its last ms, the window
StaleAges == {-50, 0, 50, StaleWindow - 1, StaleWindow}

\* a timestamp of every age, and one 50 ms old that cannot be read
StaleUpdates ==
    {[readable |-> TRUE, age |-> a] : a \in StaleAges}
      \cup {[readable |-> FALSE, age |-> 50]}

\* setup has connected
InitStale ==
    /\ reader = [manager |-> TRUE, current_track_id |-> None,
                 fetches |-> [t \in Tracks |-> 0]]
    /\ win = update_status(apply_settings(InitialWindow, 0, Wall(0)),
                           "Connected to Windows Media Controls", Wall(0))
    /\ now = 0
    /\ pc = "poll"
    /\ sync_log = NoSync
    /\ frame = NoFrame
    /\ settled = FALSE
    /\ fresh_track = FALSE
    /\ lyrics_owner = None
    /\ parse_log = NoParse
    /\ shown_at = NotShown
    /\ label = IdleLabel
    /\ requested = ""
    /\ status_log = NoStatus

PollStale == PollSampleWith(StaleUpdates)

NextStale ==
    \/ PollStale
    \/ PollMetadataError
    \/ AdvanceClock

SpecStale == InitStale /\ [][NextStale]_vars

---------------------------------------------------------------------------
(* Properties *)

\* the stored anchor, the sample's, and the one the sample met
Anchor == <<win.last_sync_track_time, win.last_sync_sys_time>>
SampleAnchor == <<sync_log.position, sync_log.capture_time>>
PrevAnchor == <<sync_log.prev_track_time, sync_log.prev_sys_time>>

\* diff = sample position - (anchor track time + (capture time - anchor capture time))
SampleDiff ==
    sync_log.position
      - (sync_log.prev_track_time + (sync_log.capture_time - sync_log.prev_sys_time))

BothPlaying == sync_log.prev_playing /\ sync_log.is_playing

\* C1: a sample handled while anchor and sample are playing, with |diff| > 2000,
\* leaves the anchor exactly at the sample's position and capture time.
C1_SnapOnSeek ==
    (sync_log.handled /\ BothPlaying /\ Abs(SampleDiff) > JumpThreshold)
        => Anchor = SampleAnchor

\* a backward seek, later than the anchor it replaces
C1_Witness ==
    /\ sync_log.handled /\ BothPlaying
    /\ SampleDiff < 0 - JumpThreshold
    /\ sync_log.capture_time > sync_log.prev_sys_time
    /\ Anchor = SampleAnchor

\* C2: a sample handled while anchor and sample are playing, with
\* -2000 <= diff <= 150, leaves the anchor's track time and capture time unchanged.
C2_IgnoreBand ==
    (sync_log.handled /\ BothPlaying
       /\ 0 - JumpThreshold <= SampleDiff /\ SampleDiff <= DriftThreshold)
        => Anchor = PrevAnchor

\* the upper boundary, diff = 150, with a sample that differs from the anchor
C2_Witness ==
    /\ sync_log.handled /\ BothPlaying
    /\ SampleDiff = DriftThreshold
    /\ PrevAnchor # SampleAnchor
    /\ Anchor = PrevAnchor

\* C3: a sample handled while anchor and sample are playing, with
\* 150 < diff <= 2000, sets the anchor to the sample's position and capture time.
C3_ForwardCatchUp ==
    (sync_log.handled /\ BothPlaying
       /\ DriftThreshold < SampleDiff /\ SampleDiff <= JumpThreshold)
        => Anchor = SampleAnchor

C3_Witness ==
    /\ sync_log.handled /\ BothPlaying
    /\ DriftThreshold < SampleDiff /\ SampleDiff <= JumpThreshold
    /\ sync_log.capture_time > sync_log.prev_sys_time
    /\ Anchor = SampleAnchor

\* C4: a sample handled while the anchor or the sample is not playing sets the
\* anchor to the sample's position and capture time whatever diff is, and the
\* stored playing flag to the sample's.
C4_SnapWhenNotBothPlaying ==
    (sync_log.handled /\ ~BothPlaying)
        => /\ Anchor = SampleAnchor
           /\ win.is_playing = sync_log.is_playing

\* resuming (stored flag off, sample playing) with a diff inside the ignore band
C4_Witness ==
    /\ sync_log.handled
    /\ ~sync_log.prev_playing /\ sync_log.is_playing
    /\ 0 - JumpThreshold <= SampleDiff /\ SampleDiff <= DriftThreshold
    /\ PrevAnchor # SampleAnchor
    /\ Anchor = SampleAnchor
    /\ win.is_playing

\* the times of later ticks: the coming clock steps, and one far later
Later(t0) == {t0 + k * ClockStep : k \in 0..MaxTicks} \cup {t0 + StaleWindow}

\* the index update_frame resolves at perf_counter t
Resolve(t) == ActiveIndex(win.lyrics_data, CurrentTime(win, t))

\* C5: while the stored flag is not playing, every later tick resolves the index
\* the last frame resolved, however far 'now' has grown, until a sample, a lyrics
\* replacement or a sync-offset change.
C5_PauseFreezesTime ==
    (~win.is_playing /\ settled)
        => \A t \in Later(now) : Resolve(t) = win.current_lyric_index

\* a tick after a paused sample, at a time at which a playing anchor would have
\* moved on to another line
C5_Witness ==
    /\ ~win.is_playing /\ settled
    /\ win.duration # 0
    /\ frame.resolved /\ ~sync_log.handled
    /\ frame.at > win.last_sync_sys_time
    /\ frame.active_index = win.current_lyric_index
    /\ ActiveIndex(win.lyrics_data,
                   win.last_sync_track_time + (frame.at - win.last_sync_sys_time)
                     + win.sync_offset_ms) # frame.active_index

\* the greatest 0-based index whose line starts at or before current_time, or -1
GreatestIndex(lyrics, current_time) ==
    LET S == {i \in 0..(Len(lyrics) - 1) : lyrics[i + 1].time <= current_time}
    IN IF S = {} THEN -1 ELSE CHOOSE i \in S : \A j \in S : j <= i

\* C6: every frame that resolves computes current_time = track time + (now - capture
\* time if playing, else 0) + sync offset, and resolves the greatest index whose
\* line time is <= current_time, or -1: on every sorted lyric sequence the scan
\* with early break agrees with that greatest index.  (Under SpecCursor the
\* installed lyrics range over every sorted sequence.)
C6_IndexResolution ==
    frame.resolved
        => /\ frame.current_time
                = win.last_sync_track_time
                    + (IF win.is_playing THEN frame.at - win.last_sync_sys_time ELSE 0)
                    + win.sync_offset_ms
           /\ frame.active_index = GreatestIndex(win.lyrics_data, frame.current_time)

\* a frame that stops at a middle line: lines before and after it
C6_Witness ==
    /\ frame.resolved
    /\ 0 < frame.active_index
    /\ frame.active_index < Len(win.lyrics_data) - 1
    /\ win.lyrics_data[frame.active_index + 1].time = frame.current_time

\* C7: with a playing anchor and the lyrics and offset fixed, the index resolved
\* at a tick time a is <= the index resolved at any later tick time b, so the
\* index of the last frame is <= the index any later tick resolves.
C7_CursorMonotone ==
    (win.is_playing /\ settled)
        => /\ \A a, b \in Later(win.last_sync_sys_time) :
                 a < b => Resolve(a) <= Resolve(b)
           /\ \A t \in Later(now) : win.current_lyric_index <= Resolve(t)

\* a tick that moved the index forward from a line resolved under the same anchor
C7_Witness ==
    /\ win.is_playing /\ settled
    /\ frame.resolved /\ ~sync_log.handled
    /\ frame.at > win.last_sync_sys_time
    /\ frame.last_emitted >= 0
    /\ frame.active_index > frame.last_emitted
    /\ Resolve(win.last_sync_sys_time) = frame.last_emitted

\* C8: a frame calls update_display exactly when the index it resolved differs
\* from the last emitted index, which it then replaces; a frame resolving the
\* last emitted index emits nothing.
C8_Coalescing ==
    frame.resolved
        => /\ frame.displayed <=> (frame.active_index # frame.last_emitted)
           /\ win.current_lyric_index = frame.active_index

\* a tick on a lyric line that was already emitted
C8_Witness ==
    /\ frame.resolved /\ ~sync_log.handled
    /\ frame.active_index >= 0
    /\ frame.active_index = frame.last_emitted
    /\ ~frame.displayed

\* C9: the installed lyrics are empty or were fetched for the current track
\* (a fetch that completes after a track change is discarded).
C9_StaleFetchDiscarded ==
    win.lyrics_data = <<>> \/ lyrics_owner = reader.current_track_id

\* C10: the first sample handled after a track change snaps the anchor to the
\* sample's position and capture time, whatever the playing flags and diff.
C10_SnapAfterTrackChange ==
    (sync_log.handled /\ sync_log.after_track_change) => Anchor = SampleAnchor

\* the texts of the lines a fetch can deliver
LyricTexts ==
    UNION {{LyricsOf(t)[i].text : i \in 1..Len(LyricsOf(t))} : t \in Tracks}

\* C11: a step that changes the current track leaves the lyric sequence empty and
\* the index at -1; and as long as the lyric sequence is empty after a step, that
\* step resolved no index and no label shows a lyric line.
C11_TrackChangeResets ==
    [][ /\ reader'.current_track_id # reader.current_track_id
            => /\ win'.lyrics_data = <<>>
               /\ win'.current_lyric_index = -1
        /\ win'.lyrics_data = <<>>
            => /\ ~frame'.resolved
               /\ win'.current_lyric_index = -1
               /\ win'.curr_label \notin LyricTexts
               /\ \A i \in DOMAIN win'.prev_labels : win'.prev_labels[i] = ""
               /\ \A i \in DOMAIN win'.next_labels : win'.next_labels[i] = "" ]_vars

\* track B replaced track A, whose fetch is over; B's fetch has delivered nothing
\* yet, and the anchor plays at a time at which lines of either track have started
C11_Witness ==
    /\ reader.current_track_id = "B"
    /\ reader.fetches["A"] = 0 /\ reader.fetches["B"] > 0
    /\ win.lyrics_data = <<>> /\ win.current_lyric_index = -1
    /\ win.curr_label = "Now Playing: B"
    /\ win.is_playing /\ win.last_sync_track_time >= 200
    /\ now > win.last_sync_sys_time

\* the lines of the blob of the last parse, and the entry a well-formed one is
\* written from
SourceLines == split(parse_log.lrc_string, "\n")
EntryOf(line) == CHOOSE e \in Entries : FormatLine(e) = line

\* what parse_lrc returned, without the intro marker
ParsedBody ==
    LET lyrics == parse_log.result.lyrics
    IN IF lyrics # <<>> /\ lyrics[1] = IntroMarker THEN Tail(lyrics) ELSE lyrics

\* how many of the first n elements of s are in set S
RECURSIVE CountIn(_, _, _)
CountIn(s, S, n) ==
    IF n = 0 THEN 0 ELSE CountIn(s, S, n - 1) + (IF s[n] \in S THEN 1 ELSE 0)

\* C12: parse_lrc raises on no blob, and returns one line for every line of the
\* blob that is well-formed (with its time and trimmed text), whatever lines
\* that cannot be parsed stand beside them.
C12_MalformedTolerance ==
    parse_log.parsed
        => /\ ~parse_log.result.raised
           /\ \A i \in 1..Len(SourceLines) :
                 SourceLines[i] \in WellFormedLines
                   => \E j \in 1..Len(ParsedBody) :
                         /\ ParsedBody[j].time = EntryTime(EntryOf(SourceLines[i]))
                         /\ ParsedBody[j].text = Str(EntryOf(SourceLines[i]).text)
           /\ Len(ParsedBody) >= CountIn(SourceLines, WellFormedLines, Len(SourceLines))

NonDecreasing(lyrics) ==
    \A i \in 1..(Len(lyrics) - 1) : lyrics[i].time <= lyrics[i + 1].time

\* the one-to-one maps of 1..n onto itself
Perms(n) == {p \in [1..n -> 1..n] : \A i, j \in 1..n : i # j => p[i] # p[j]}

\* sorted is lines in non-decreasing time order, lines of one time in the order
\* they have in lines
StablySorted(lines, sorted) ==
    /\ Len(sorted) = Len(lines)
    /\ \E p \in Perms(Len(lines)) :
          /\ \A i \in 1..Len(lines) : sorted[i] = lines[p[i]]
          /\ \A i, j \in 1..Len(lines) :
                i < j => \/ lines[p[i]].time < lines[p[j]].time
                         \/ lines[p[i]].time = lines[p[j]].time /\ p[i] < p[j]

\* C13: the installed lyric sequence is non-decreasing by time in every state;
\* what parse_lrc returns is non-decreasing by time, intro marker included, and
\* is the lines it appended with lines of equal time kept in their order.
C13_SortedByTime ==
    /\ NonDecreasing(win.lyrics_data)
    /\ (parse_log.parsed /\ ~parse_log.result.raised)
          => /\ NonDecreasing(parse_log.result.lyrics)
             /\ StablySorted(parse_log.appended, ParsedBody)
             /\ win.lyrics_data = parse_log.result.lyrics

\* two lines of one time later than the intro gap, with different texts: they
\* keep their order behind the marker and are installed
C13_Witness ==
    /\ parse_log.parsed
    /\ Len(parse_log.appended) = 2
    /\ parse_log.appended[1].time = parse_log.appended[2].time
    /\ parse_log.appended[1].text # parse_log.appended[2].text
    /\ parse_log.result.lyrics = <<IntroMarker>> \o parse_log.appended
    /\ win.lyrics_data = parse_log.result.lyrics

\* the earliest time among lines, a non-empty sequence
MinTime(lines) ==
    CHOOSE t \in {lines[i].time : i \in 1..Len(lines)} :
        \A i \in 1..Len(lines) : t <= lines[i].time

\* C14: when parse_lrc appended lines and the earliest is later than 8000 ms, it
\* returns them behind exactly one marker line of time 5000 and text "...";
\* when the earliest is at or before 8000 ms it returns them with nothing put
\* before; when it appended no line it returns the empty sequence.
C14_IntroGapInjection ==
    (parse_log.parsed /\ ~parse_log.result.raised)
        => LET lines == parse_log.appended
               lyrics == parse_log.result.lyrics
           IN IF lines = <<>> THEN lyrics = <<>>
              ELSE IF MinTime(lines) > IntroGap
                   THEN /\ Len(lyrics) = Len(lines) + 1
                        /\ lyrics[1] = [time |-> 5000, text |-> "..."]
                        /\ lyrics[2].time = MinTime(lines)
                   ELSE /\ Len(lyrics) = Len(lines)
                        /\ lyrics[1].time = MinTime(lines)
                        /\ \A i \in 1..Len(lyrics) : lyrics[i] \in
                              {lines[j] : j \in 1..Len(lines)}

\* a first line at exactly 8000 ms, a later line behind it: no marker
C14_Witness ==
    /\ parse_log.parsed
    /\ Len(parse_log.appended) = 2
    /\ MinTime(parse_log.appended) = IntroGap
    /\ \E i \in 1..2 : parse_log.appended[i].time > IntroGap
    /\ Len(parse_log.result.lyrics) = 2
    /\ parse_log.result.lyrics[1].time = IntroGap

\* the blob of the last parse is well-formed: every line is written from an entry
WellFormedBlob == \A i \in 1..Len(SourceLines) : SourceLines[i] \in WellFormedLines

\* C15: for a blob of N well-formed lines whose timestamps ascend and whose first
\* timestamp is <= 8000 ms, parse_lrc returns exactly N lines, non-decreasing by
\* time, the i-th with the text of the i-th line of the blob without the
\* whitespace around it.
C15_RoundTrip ==
    (/\ parse_log.parsed
     /\ WellFormedBlob
     /\ \A i \in 1..(Len(SourceLines) - 1) :
           EntryTime(EntryOf(SourceLines[i])) <= EntryTime(EntryOf(SourceLines[i + 1]))
     /\ EntryTime(EntryOf(SourceLines[1])) <= IntroGap)
        => /\ ~parse_log.result.raised
           /\ Len(parse_log.result.lyrics) = Len(SourceLines)
           /\ NonDecreasing(parse_log.result.lyrics)
           /\ \A i \in 1..Len(SourceLines) :
                 parse_log.result.lyrics[i].text = Str(EntryOf(SourceLines[i]).text)

\* two lines, the first with whitespace around its text, the second later than
\* the intro gap
C15_Witness ==
    /\ parse_log.parsed
    /\ WellFormedBlob
    /\ Len(SourceLines) = 2
    /\ EntryOf(SourceLines[1]).padded
    /\ EntryTime(EntryOf(SourceLines[1])) < IntroGap
    /\ EntryTime(EntryOf(SourceLines[2])) > IntroGap
    /\ Len(parse_log.result.lyrics) = 2
    /\ parse_log.result.lyrics[1].text = "b"
    /\ parse_log.result.lyrics[2].text = "a"

\* C16: every line parse_lrc returns, and every line of the installed lyric
\* sequence, has a time >= 0.
C16_NonNegativeTime ==
    /\ \A i \in 1..Len(win.lyrics_data) : win.lyrics_data[i].time >= 0
    /\ parse_log.parsed
          => \A i \in 1..Len(parse_log.result.lyrics) :
                parse_log.result.lyrics[i].time >= 0

\* (minutes * 60 + seconds) * 1000 rounded to the nearest integer, halves upward
RoundedMs(minutes, seconds) ==
    LET den == Pow10(seconds.scale)
        num == seconds.sign * seconds.mant * 1000
    IN minutes * 60000 + ((2 * num + den) \div (2 * den))

\* the minutes and seconds fields of a line that parse_lrc appends
MinutesOf(line) ==
    int(split(Slice(line, find(line, "[") + 1, find(line, "]")), ":")[1]).value
SecondsOf(line) ==
    float(split(Slice(line, find(line, "[") + 1, find(line, "]")), ":")[2])

\* C17: the time of every line parse_lrc appends is (minutes * 60 + seconds) * 1000
\* rounded to the nearest integer, however many fractional digits seconds has.
C17_RoundedToNearest ==
    parse_log.parsed
        => \A i \in 1..Len(SourceLines) :
              LET r == ParseLine(SourceLines[i])
              IN r.appended
                   => r.line.time = RoundedMs(MinutesOf(SourceLines[i]),
                                              SecondsOf(SourceLines[i]))

\* C18: the position of a handled sample is the raw position plus the age of the
\* session's last-updated timestamp when 0 <= age < 10000 ms, and the raw
\* position when age < 0 or age >= 10000; the age counts as 0 when the timestamp
\* cannot be read.
C18_StalenessCorrection ==
    sync_log.handled
        => LET age == IF sync_log.last_updated.readable
                      THEN sync_log.last_updated.age ELSE 0
           IN sync_log.position
                = IF 0 <= age /\ age < 10000
                  THEN sync_log.raw_position_ms + age
                  ELSE sync_log.raw_position_ms

\* a timestamp in the last millisecond of the window: the age is added
C18_Witness ==
    /\ sync_log.handled
    /\ sync_log.last_updated.readable
    /\ sync_log.last_updated.age = 9999
    /\ sync_log.raw_position_ms > 0
    /\ sync_log.position = sync_log.raw_position_ms + 9999

\* C19: a step in which the media session is unavailable, or in which the lyric
\* search raises, leaves the anchor (track time, capture time, playing flag) and
\* the installed lyric sequence as they were.
C19_FailureKeepsState ==
    [][ (PollNoSession \/ \E t \in Tracks : FetchError(t))
          => /\ win'.last_sync_track_time = win.last_sync_track_time
             /\ win'.last_sync_sys_time = win.last_sync_sys_time
             /\ win'.is_playing = win.is_playing
             /\ win'.lyrics_data = win.lyrics_data ]_vars

\* C20: whatever has failed before, whenever main_loop stands before a poll, a
\* poll that finds the media session available can emit a playback sample, and
\* whenever it stands at the metadata read, the read can go through.
C20_NoFailureIsFatal ==
    /\ pc = "poll" => ENABLED PollSample
    /\ pc = "meta" => ENABLED PollMetadata

---------------------------------------------------------------------------
(* The anchor as the frames see it *)

\* the anchor with its playing flag, as the state holds it
AnchorTriple == <<win.last_sync_track_time, win.last_sync_sys_time, win.is_playing>>

\* the anchor a frame read
FrameRead == <<frame.read_track_time, frame.read_sys_time, frame.read_playing>>

\* C21: no frame observes a torn anchor. The track time, the capture time and
\* the playing flag a frame reads are the three the state holds after the step,
\* and after a handled sample the three are the sample's own (position, capture
\* time, flag) or the three of the state before it, never a mixture of the two.
C21_NoTornAnchor ==
    /\ frame.resolved => FrameRead = AnchorTriple
    /\ sync_log.handled =>
          \/ AnchorTriple = <<sync_log.position, sync_log.capture_time,
                              sync_log.is_playing>>
          \/ AnchorTriple = <<sync_log.prev_track_time, sync_log.prev_sys_time,
                              sync_log.prev_playing>>

\* a handled sample that changed the flag and moved the anchor, read by its frame
C21_Witness ==
    /\ sync_log.handled
    /\ frame.resolved
    /\ sync_log.is_playing # sync_log.prev_playing
    /\ Anchor = SampleAnchor
    /\ Anchor # PrevAnchor
    /\ FrameRead = AnchorTriple

\* the track time a frame at frame.at would compute from the anchor and flag
\* of before the sample
PreSampleTime ==
    sync_log.prev_track_time
      + (IF sync_log.prev_playing THEN frame.at - sync_log.prev_sys_time ELSE 0)
      + win.sync_offset_ms

\* C22: causal order within a handled sample. With lyrics loaded, the step
\* that handles a sample also resolves the line, at the time of the handling,
\* from the anchor and flag the sample left; the index stored is that line, and
\* the display was refreshed exactly when it differs from the index before.
C22_ResolveAfterSample ==
    sync_log.handled =>
       /\ frame.resolved <=> win.lyrics_data # <<>>
       /\ frame.resolved =>
             /\ frame.at = now
             /\ frame.current_time = CurrentTime(win, now)
             /\ frame.active_index = ActiveIndex(win.lyrics_data, frame.current_time)
             /\ win.current_lyric_index = frame.active_index
             /\ frame.displayed <=> frame.active_index # frame.last_emitted

\* a sample whose new anchor changed the line, where the anchor of before the
\* sample would have given another line
C22_Witness ==
    /\ sync_log.handled
    /\ frame.resolved
    /\ frame.displayed
    /\ Anchor # PrevAnchor
    /\ ActiveIndex(win.lyrics_data, PreSampleTime) # frame.active_index
    /\ ActiveIndex(win.lyrics_data, PreSampleTime) = frame.last_emitted

---------------------------------------------------------------------------
(* Lyric fetches *)

\* C23: one fetch per detected track change. A step that changes the track id
\* sets it to a non-empty title and starts exactly one fetch, of that track; a
\* step that leaves the id alone starts none. The step that ends a fetch, on
\* whichever path, ends that one fetch only and hands the window exactly one
\* result: the track's parsed lines or the empty list, with the index reset.
C23_OneFetchPerTrackChange ==
    [][ LET changed == reader'.current_track_id # reader.current_track_id
        IN /\ changed =>
                /\ reader'.current_track_id \in Tracks
                /\ reader'.fetches =
                      [reader.fetches EXCEPT ![reader'.current_track_id] = @ + 1]
           /\ ~changed =>
                \A t \in Tracks : reader'.fetches[t] <= reader.fetches[t]
           /\ \A t \in Tracks :
                reader'.fetches[t] < reader.fetches[t] =>
                      /\ reader'.fetches = [reader.fetches EXCEPT ![t] = @ - 1]
                      /\ win'.current_lyric_index = -1
                      /\ win'.lyrics_data \in {<<>>, LyricsOf(t)}
      ]_vars

\* the fetch of the current track has delivered its lyrics, none is running,
\* and a poll later than the one after the change has been handled
C23_Witness ==
    /\ reader.current_track_id \in Tracks
    /\ lyrics_owner = reader.current_track_id
    /\ win.lyrics_data = LyricsOf(reader.current_track_id)
    /\ Outstanding = 0
    /\ sync_log.handled
    /\ ~sync_log.after_track_change

---------------------------------------------------------------------------
(* The fade-out of status messages, over more than five seconds *)

\* the instants looked at: the first frames, and the frames around five
\* seconds later
FadeTimes ==
    {k * ClockStep : k \in 0..MaxTicks}
      \cup {FadeAfter + k * ClockStep : k \in 0..MaxTicks}

\* the window is constructed at Wall(0), showing "Waiting for music..."
InitFade ==
    /\ reader = [manager |-> FALSE, current_track_id |-> None,
                 fetches |-> [t \in Tracks |-> 0]]
    /\ win = apply_settings(InitialWindow, 0, Wall(0))
    /\ now = 0
    /\ pc = "setup"
    /\ sync_log = NoSync
    /\ frame = NoFrame
    /\ settled = FALSE
    /\ fresh_track = FALSE
    /\ lyrics_owner = None
    /\ parse_log = NoParse
    /\ shown_at = [kept |-> TRUE, at |-> Wall(0)]
    /\ label = IdleLabel
    /\ requested = ""
    /\ status_log = NoStatus

\* time passes, up to one of the instants looked at
FadeClock ==
    /\ \E t \in FadeTimes : t > now /\ now' = t
    /\ sync_log' = NoSync
    /\ frame' = NoFrame
    /\ UNCHANGED <<reader, win, pc, settled, fresh_track, lyrics_owner>>
    /\ parse_log' = NoParse
    /\ shown_at' = ShownAfter
    /\ status_log' = NoStatus
    /\ UNCHANGED <<label, requested>>

\* no lyrics are ever found
NextFade ==
    \/ Setup
    \/ PollNoSession
    \/ PollNoSample
    \/ PollMetadata
    \/ PollMetadataError
    \/ \E t \in Tracks : FetchNone(t)
    \/ \E t \in Tracks : FetchError(t)
    \/ Tick
    \/ FadeClock

SpecFade == InitFade /\ [][NextFade]_vars

\* how long the label has shown its text
ShownFor == Wall(now) - shown_at.at

\* C24: the fade-out of a status message. With no lyrics loaded and a text on
\* the current label, a frame clears the label when the text has been shown
\* for more than five seconds and no status message or display update has
\* set the timestamp since it appeared, and leaves the label alone when the
\* text has been shown for five seconds or less.
C24_StatusFade ==
    [][ (Tick /\ win.lyrics_data = <<>> /\ win.curr_label # "") =>
          /\ (ShownFor > FadeAfter /\ win.system_message_time <= shown_at.at)
                => win'.curr_label = ""
          /\ ShownFor <= FadeAfter => win'.curr_label = win.curr_label
      ]_vars

---------------------------------------------------------------------------
(* The settings: what the file holds, and what apply_settings reads *)

\* the largest number of context lines a settings file or the dialog gives
MaxContext == 2

\* settings_ui.py 32-48, the keys apply_settings and update_frame could read
DEFAULT_SETTINGS ==
    [num_history_lines |-> 0, num_future_lines |-> 1, sync_offset_ms |-> 0]

\* dict.update
update(settings, data) ==
    [k \in DOMAIN settings \cup DOMAIN data |->
        IF k \in DOMAIN data THEN data[k] ELSE settings[k]]

\* dict.get
get(settings, key, default) ==
    IF key \in DOMAIN settings THEN settings[key] ELSE default

\* what settings.json may hold: nothing (or no file), the keys of the dialog,
\* or keys that only a file written by hand or by another version has
SettingsFiles ==
    {[k \in {} |-> 0]}
      \cup {[num_history_lines |-> h, num_future_lines |-> f] :
               h \in 0..MaxContext, f \in 0..MaxContext}
      \cup {[num_preview_lines |-> n] : n \in 0..MaxContext}
      \cup {[num_preview_lines |-> n, show_history |-> FALSE] : n \in 0..MaxContext}

\* SettingsManager.__init__ and load
load(file) == update(DEFAULT_SETTINGS, file)

\* apply_settings 263-354 with the settings given: the window after it, and the
\* exception it raised ("" for none)
apply_settings_with(w, settings, wall) ==
    LET w0 == [w EXCEPT !.settings = settings,
                        !.prev_labels = <<>>,
                        !.next_labels = <<>>]
    IN IF "num_preview_lines" \notin DOMAIN settings
       THEN [raised |-> "KeyError", w |-> w0]
       ELSE LET num_lines == settings["num_preview_lines"]
                w1 == [w0 EXCEPT
                         !.prev_labels = IF get(settings, "show_history", TRUE)
                                         THEN [i \in 1..num_lines |-> ""] ELSE <<>>,
                         !.next_labels = IF get(settings, "show_future", TRUE)
                                         THEN [i \in 1..num_lines |-> ""] ELSE <<>>,
                         !.sync_offset_ms = get(settings, "sync_offset_ms", 0)]
            IN [raised |-> "", w |-> RefreshText(w1, wall)]

\* before main constructs the window
InitSettings ==
    /\ reader = [manager |-> FALSE, current_track_id |-> None,
                 fetches |-> [t \in Tracks |-> 0]]
    /\ win = InitialWindow
    /\ now = 0
    /\ pc = "init"
    /\ sync_log = NoSync
    /\ frame = NoFrame
    /\ settled = FALSE
    /\ fresh_track = FALSE
    /\ lyrics_owner = None
    /\ parse_log = NoParse
    /\ shown_at = NotShown
    /\ label = IdleLabel
    /\ requested = ""
    /\ status_log = NoStatus

\* SettingsManager() and OverlayWindow(settings_manager), main 611-612: the
\* constructor ends with apply_settings, and an exception ends the program
Construct ==
    /\ pc = "init"
    /\ \E file \in SettingsFiles :
          LET r == apply_settings_with(
                      [k \in DOMAIN InitialWindow \cup {"settings"} |->
                         IF k = "settings" THEN load(file) ELSE InitialWindow[k]],
                      load(file), Wall(now))
          IN /\ win' = r.w
             /\ pc' = IF r.raised = "" THEN "running" ELSE r.raised
    /\ sync_log' = NoSync
    /\ frame' = NoFrame
    /\ UNCHANGED <<reader, now, settled, fresh_track, lyrics_owner>>
    /\ parse_log' = NoParse
    /\ shown_at' = ShownAfter
    /\ status_log' = NoStatus
    /\ UNCHANGED <<label, requested>>

\* the dialog's spin boxes and live update, settings_ui.py 271-285 and
\* show_settings 569-586: one key of the temporary settings is set and
\* apply_settings called with them
LiveUpdate ==
    /\ pc = "running"
    /\ \E key \in {"num_history_lines", "num_future_lines"}, v \in 0..MaxContext :
          LET r == apply_settings_with(win, update(win.settings, [k \in {key} |-> v]),
                                       Wall(now))
          IN /\ win' = r.w
             /\ pc' = IF r.raised = "" THEN "running" ELSE r.raised
    /\ sync_log' = NoSync
    /\ frame' = NoFrame
    /\ UNCHANGED <<reader, now, settled, fresh_track, lyrics_owner>>
    /\ parse_log' = NoParse
    /\ shown_at' = ShownAfter
    /\ status_log' = NoStatus
    /\ UNCHANGED <<label, requested>>

NextSettings ==
    \/ Construct
    \/ LiveUpdate
    \/ AdvanceClock

SpecSettings == InitSettings /\ [][NextSettings]_vars

\* C25: the number of context lines is settable. Once the window has been
\* constructed, whatever the settings file holds (nothing included),
\* apply_settings has not failed, and there are num_history_lines previous
\* labels and num_future_lines next labels.
C25_ContextLinesSettable ==
    pc # "init" =>
       /\ pc = "running"
       /\ Len(win.prev_labels) = win.settings["num_history_lines"]
       /\ Len(win.next_labels) = win.settings["num_future_lines"]

---------------------------------------------------------------------------
\* C26: the output of parse_lrc is deduplicated. Whatever the blob, a line
\* repeated in it included, no two entries of the returned sequence have the
\* same time and the same text.
C26_Deduplicated ==
    (parse_log.parsed /\ ~parse_log.result.raised) =>
       \A i, j \in DOMAIN parse_log.result.lyrics :
          (/\ parse_log.result.lyrics[i].time = parse_log.result.lyrics[j].time
           /\ parse_log.result.lyrics[i].text = parse_log.result.lyrics[j].text)
             => i = j

---------------------------------------------------------------------------
\* C27: the stored index is always -1 or the index of a line of the stored
\* lyric sequence: -1 <= current_lyric_index < len(lyrics_data), so it is -1
\* whenever the sequence is empty.
C27_IndexInRange ==
    /\ -1 <= win.current_lyric_index
    /\ win.current_lyric_index < Len(win.lyrics_data)

\* the index stands on the last line of a loaded track
C27_Witness ==
    /\ win.lyrics_data # <<>>
    /\ win.current_lyric_index = Len(win.lyrics_data) - 1
    /\ frame.resolved

---------------------------------------------------------------------------
\* C28: the displayed index does not go backward without a backward seek. A
\* frame (of a tick or of a handled sample) run while the stored flag is and
\* stays playing, the lyrics and the sync offset stay the same and the index
\* was resolved under them, does not lower the stored index, unless it is the frame of a
\* sample with diff < -2000; samples in the ignore band and forward snaps
\* leave it where it is or move it forward.
C28_NoBackwardWithoutSeek ==
    [][ (/\ frame'.resolved
         /\ win.is_playing /\ win'.is_playing
         /\ settled
         /\ win'.lyrics_data = win.lyrics_data
         /\ win'.sync_offset_ms = win.sync_offset_ms
         /\ ~(sync_log'.handled /\ SampleDiff' < 0 - JumpThreshold))
          => win'.current_lyric_index >= win.current_lyric_index
      ]_vars

\* a sample behind the anchor, inside the ignore band, handled while a line
\* later than the sample's position is displayed: the line stays
C28_Witness ==
    /\ sync_log.handled /\ BothPlaying
    /\ SampleDiff < 0 /\ 0 - JumpThreshold <= SampleDiff
    /\ frame.resolved
    /\ frame.last_emitted >= 0
    /\ frame.active_index = frame.last_emitted
    /\ ActiveIndex(win.lyrics_data, sync_log.position + win.sync_offset_ms)
          < frame.last_emitted

---------------------------------------------------------------------------
\* the sample's position minus the position the anchor of after the sample
\* extrapolates to at the sample's capture time
DriftAfterSample ==
    sync_log.position
      - (win.last_sync_track_time
           + (sync_log.capture_time - win.last_sync_sys_time))

\* C29: bounded drift after every sample. Right after a sample is handled, the
\* sample's position differs from the anchor's extrapolated position at the
\* capture time by a value in [-2000, 150] when the state before and the
\* sample are both playing, and by exactly 0 otherwise.
C29_BoundedDrift ==
    sync_log.handled =>
       IF BothPlaying
       THEN /\ 0 - JumpThreshold <= DriftAfterSample
            /\ DriftAfterSample <= DriftThreshold
       ELSE DriftAfterSample = 0

\* a sample left exactly 2000 ms behind the anchor it did not move
C29_Witness ==
    /\ sync_log.handled /\ BothPlaying
    /\ DriftAfterSample = 0 - JumpThreshold
    /\ Anchor = PrevAnchor

---------------------------------------------------------------------------
(* StrokedLabel: the animated text swap *)

\* the texts asked of the label: the lines of the tracks, and none
LabelTexts == {""} \cup LyricTexts

\* StrokedLabel.setText 72-92
setText(l, text) ==
    IF ~l.enable_animation THEN [l EXCEPT !.text = text]
    ELSE IF l.text = text THEN l
    ELSE IF l.anim_stage # 0 /\ l.pending_text = text THEN l
    ELSE IF l.anim_stage = 1 THEN [l EXCEPT !.pending_text = text]
    ELSE [l EXCEPT !.pending_text = text, !.anim_stage = 1]

\* StrokedLabel._on_anim_finished 146-152
on_anim_finished(l) ==
    IF l.anim_stage = 1
    THEN [l EXCEPT !.text = l.pending_text, !.anim_stage = 2]
    ELSE [l EXCEPT !.anim_stage = 0]

\* a label as apply_settings leaves it, with the animation enabled or not
InitLabel ==
    /\ reader = [manager |-> FALSE, current_track_id |-> None,
                 fetches |-> [t \in Tracks |-> 0]]
    /\ win = apply_settings(InitialWindow, 0, Wall(0))
    /\ now = 0
    /\ pc = "setup"
    /\ sync_log = NoSync
    /\ frame = NoFrame
    /\ settled = FALSE
    /\ fresh_track = FALSE
    /\ lyrics_owner = None
    /\ parse_log = NoParse
    /\ shown_at = NotShown
    /\ \E enabled \in BOOLEAN : label = [IdleLabel EXCEPT !.enable_animation = enabled]
    /\ requested = ""
    /\ status_log = NoStatus

\* a caller sets a text
SetText ==
    /\ \E text \in LabelTexts :
          /\ label' = setText(label, text)
          /\ requested' = text
    /\ UNCHANGED <<reader, win, now, pc, sync_log, frame, settled, fresh_track,
                   lyrics_owner, parse_log, shown_at, status_log>>

\* the running animation group ends: its finished signal
AnimFinished ==
    /\ label.anim_stage # 0
    /\ label' = on_anim_finished(label)
    /\ UNCHANGED <<reader, win, now, pc, sync_log, frame, settled, fresh_track,
                   lyrics_owner, parse_log, shown_at, requested,
                   status_log>>

NextLabel ==
    \/ SetText
    \/ AnimFinished

SpecLabel == InitLabel /\ [][NextLabel]_vars

\* C30: with the animation enabled, whatever the sequence of setText calls
\* (one asking for the text still displayed while another is pending
\* included), the label shows the text asked for last once it is idle.
C30_LastRequestedText ==
    (label.enable_animation /\ label.anim_stage = 0) => label.text = requested

---------------------------------------------------------------------------
\* the steps that are a call of update_status and nothing else on the window
StatusStep == Setup \/ PollNoSession

\* C31: status messages never disturb playback state. A step that hands the
\* window a status message leaves the anchor, the playing flag and the duration
\* unchanged; when the step is update_status alone it also leaves the lyric
\* sequence and the active index unchanged, and with a non-empty lyric
\* sequence the whole window, labels included; with no lyrics the current
\* label shows the message and the context labels are empty.
C31_StatusLeavesPlayback ==
    [][ status_log'.emitted =>
          /\ win'.last_sync_track_time = win.last_sync_track_time
          /\ win'.last_sync_sys_time = win.last_sync_sys_time
          /\ win'.is_playing = win.is_playing
          /\ win'.duration = win.duration
          /\ StatusStep =>
                /\ win'.lyrics_data = win.lyrics_data
                /\ win'.current_lyric_index = win.current_lyric_index
                /\ win.lyrics_data # <<>> => win' = win
                /\ win.lyrics_data = <<>> =>
                      /\ win'.curr_label = status_log'.msg
                      /\ \A i \in DOMAIN win'.prev_labels : win'.prev_labels[i] = ""
                      /\ \A i \in DOMAIN win'.next_labels : win'.next_labels[i] = ""
      ]_vars

\* "Waiting for media..." was emitted while a lyric line is displayed under a
\* playing anchor: the line is still on the label
C31_Witness ==
    /\ status_log.emitted
    /\ status_log.msg = "Waiting for media..."
    /\ win.lyrics_data # <<>>
    /\ win.current_lyric_index >= 0
    /\ win.curr_label = win.lyrics_data[win.current_lyric_index + 1].text
    /\ win.is_playing

====
